---- MODULE Spec2Model ----
(***************************************************************************)
(* A model of tflint/client.go: the plugin-side RPC client.  One client    *)
(* operation runs at a time (the client is synchronous); the host, the     *)
(* file system, the walker callback and the proc callback are the          *)
(* environment and answer nondeterministically from small pools.           *)
(***************************************************************************)
EXTENDS Integers, Sequences, FiniteSets, TLC

VARIABLES
    pc,         \* position of the running client operation
    op,         \* name of the running operation ("" before any)
    args,       \* arguments of the running operation
    calls,      \* requests sent over rpcClient.Call by this operation, in order
    callErr,    \* the error the last rpcClient.Call returned
    response,   \* the reply decoded by rpcClient.Call
    src,        \* result of ioutil.ReadFile in this operation
    idx,        \* index of the range loop in WalkResourceAttributes
    parsed,     \* parseExpression calls made so far: parser used and result
    visited,    \* *hcl.Attribute values handed to the walker, in order
    walkerRets, \* values the walker returned, in order
    active,     \* walker invocations currently running
    procCalls,  \* invocations of proc by EnsureNoError
    procRets,   \* values proc returned, in order
    dest,       \* the value behind EvaluateExpr's ret pointer
    prev,       \* operation whose return value was handed to EnsureNoError
    result      \* how the operation ended: running, returned val, panicked val

vars == <<pc, op, args, calls, callErr, response, src, idx, parsed, visited,
          walkerRets, active, procCalls, procRets, dest, prev, result>>

---------------------------------------------------------------------------
(* Bounds *)

MaxAttrs == 3

SeqsUpTo(S, n) == UNION {[1..k -> S] : k \in 0..n}

---------------------------------------------------------------------------
(* Strings that the code inspects are sequences of characters. *)

TfSuffix == <<".", "t", "f">>
TfJsonSuffix == <<".", "t", "f", ".", "j", "s", "o", "n">>

MainTf == <<"m">> \o TfSuffix
MainTfJson == <<"m">> \o TfJsonSuffix
JsonTf == <<"m", ".", "j", "s", "o", "n">> \o TfSuffix
MainTxt == <<"m", ".", "t", "x", "t">>
NoFile == << >>

\* strings.HasSuffix
HasSuffix(s, suffix) ==
    /\ Len(s) >= Len(suffix)
    /\ SubSeq(s, Len(s) - Len(suffix) + 1, Len(s)) = suffix

---------------------------------------------------------------------------
(* hcl.Pos and hcl.Range *)

Pos(line, column, byte) == [Line |-> line, Column |-> column, Byte |-> byte]
Rng(filename, start, end) == [Filename |-> filename, Start |-> start, End |-> end]
NoRange == Rng(NoFile, Pos(0, 0, 0), Pos(0, 0, 0))

Min(a, b) == IF a <= b THEN a ELSE b
Max(a, b) == IF a >= b THEN a ELSE b

\* hcl.Range.SliceBytes: the bytes of b the range covers, the offsets clamped
\* to the buffer
SliceBytes(r, b) ==
    LET start == Min(Max(r.Start.Byte, 0), Len(b))
        end0 == Min(Max(r.End.Byte, 0), Len(b))
        end == Max(end0, start)
    IN SubSeq(b, start + 1, end)

---------------------------------------------------------------------------
(* Error values.  A Go error is modelled by one record shape: kind names   *)
(* the dynamic type held by the interface ("nil" for a nil interface,      *)
(* "Error" for an Error value, "*Error" for a pointer to an Error), the    *)
(* other fields are the Error's fields (zero for the other kinds).         *)

ErrorLevel == "ErrorLevel"
WarningLevel == "WarningLevel"
OtherLevel == "OtherLevel"
Levels == {ErrorLevel, WarningLevel, OtherLevel}

TypeMismatchError == "TypeMismatchError"
HostCode == "EvaluationError"

Msg(format, file, line) == [fmt |-> format, file |-> file, line |-> line]
NoMsg == Msg("", NoFile, 0)

MkErr(kind, code, level, message, cause) ==
    [kind |-> kind, code |-> code, level |-> level, message |-> message, cause |-> cause]

Nil == MkErr("nil", "", "", NoMsg, "")
Foreign(kind, text) == MkErr(kind, "", "", Msg(text, NoFile, 0), "")

\* Error{...} held by value, &Error{...} held by reference
ErrorValue(code, level, message, cause) == MkErr("Error", code, level, message, cause)
ErrorRef(code, level, message, cause) == MkErr("*Error", code, level, message, cause)

IsLeveled(e) == e.kind \in {"Error", "*Error"}

RpcErrors ==
    {Foreign("rpc", "connection is shut down"), Foreign("rpc.ServerError", "method failed")}
IOErrors == {Foreign("io", "no such file")}
Diags == Foreign("diags", "Invalid expression")

\* application errors a host can put in a response
HostErrors ==
    {MkErr(k, HostCode, l, Msg("host", NoFile, 0), "") : k \in {"Error", "*Error"}, l \in Levels}
      \cup {Foreign("other", "host failure")}

---------------------------------------------------------------------------
(* Expressions.  Source text is a sequence of one-character tokens: "a" an *)
(* identifier, "1" a number literal, "!" an operator with no operand.      *)

\* hclsyntax.ParseExpression accepts the source: native syntax
NativeOK(source) == Len(source) > 0 /\ \A i \in 1..Len(source) : source[i] # "!"
\* json.ParseExpression accepts the source: JSON syntax has no bare identifier
JsonOK(source) == Len(source) > 0 /\ \A i \in 1..Len(source) : source[i] = "1"

\* a parsed hcl.Expression: the syntax it was parsed as, and what it was parsed from
Parsed(syntax, source, filename, start) ==
    [syntax |-> syntax, source |-> source, filename |-> filename, start |-> start]
NoExpr == Parsed("", << >>, NoFile, Pos(0, 0, 0))

ParseResult(parser, panics, expr, diags) ==
    [parser |-> parser, panics |-> panics, expr |-> expr, diags |-> diags]

\* parseExpression handing every file that is not JSON to the native parser
parseExpression_NativeDefault(source, filename, start) ==
    IF HasSuffix(filename, TfJsonSuffix)
    THEN IF JsonOK(source)
         THEN ParseResult("json", FALSE, Parsed("json", source, filename, start), Nil)
         ELSE ParseResult("json", FALSE, NoExpr, Diags)
    ELSE IF NativeOK(source)
         THEN ParseResult("hclsyntax", FALSE, Parsed("hclsyntax", source, filename, start), Nil)
         ELSE ParseResult("hclsyntax", FALSE, NoExpr, Diags)

\* parseExpression: dispatch on the suffix of the filename
parseExpression(source, filename, start) ==
    IF HasSuffix(filename, TfSuffix)
    THEN IF NativeOK(source)
         THEN ParseResult("hclsyntax", FALSE, Parsed("hclsyntax", source, filename, start), Nil)
         ELSE ParseResult("hclsyntax", FALSE, NoExpr, Diags)
    ELSE IF HasSuffix(filename, TfJsonSuffix)
    THEN IF JsonOK(source)
         THEN ParseResult("json", FALSE, Parsed("json", source, filename, start), Nil)
         ELSE ParseResult("json", FALSE, NoExpr, Diags)
    ELSE ParseResult("none", TRUE, NoExpr, Nil)

\* hcl.Diagnostics.HasErrors
HasErrors(diags) == diags # Nil

\* the panic value of parseExpression
UnexpectedFile(filename) == MkErr("string", "", "", Msg("Unexpected file: %s", filename, 0), "")

---------------------------------------------------------------------------
(* Wire types *)

\* Attribute: the intermediate representation of hcl.Attribute
Attribute(name, expr, exprRange, range, nameRange) ==
    [Name |-> name, Expr |-> expr, ExprRange |-> exprRange, Range |-> range,
     NameRange |-> nameRange]

\* an attribute on line `line` of `filename` whose expression text is `expr`
AttrAt(name, expr, filename, line) ==
    Attribute(name, expr,
              Rng(filename, Pos(line, 5, 10 * line + 4), Pos(line, 5 + Len(expr), 10 * line + 4 + Len(expr))),
              Rng(filename, Pos(line, 1, 10 * line), Pos(line, 5 + Len(expr), 10 * line + 4 + Len(expr))),
              Rng(filename, Pos(line, 1, 10 * line), Pos(line, 2, 10 * line + 1)))

AttrPool ==
    { AttrAt("instance_type", <<"a">>, MainTf, 1),
      AttrAt("ami", <<"1">>, MainTfJson, 2),
      AttrAt("bad", <<"!">>, MainTf, 3),
      AttrAt("name", <<"a">>, MainTfJson, 4),
      AttrAt("txt", <<"1">>, MainTxt, 5),
      AttrAt("tags", <<"a">>, JsonTf, 6) }

\* hcl.Attribute, as built for the walker
HclAttribute(name, expr, range, nameRange) ==
    [Name |-> name, Expr |-> expr, Range |-> range, NameRange |-> nameRange]

\* cty.Value
Cty(type, v, known) == [type |-> type, v |-> v, known |-> known]
CtyVals == {Cty("string", "t2.micro", TRUE), Cty("number", "1", TRUE), Cty("string", "", FALSE)}
ZeroVal == Cty("", "", TRUE)

\* AttributesResponse, EvalExprResponse and the reply of EmitIssue in one shape
Response(attributes, val, err) == [Attributes |-> attributes, Val |-> val, Err |-> err]
ZeroResponse == Response(<< >>, ZeroVal, Nil)

AttributesResponses ==
    {Response(a, ZeroVal, e) : a \in SeqsUpTo(AttrPool, MaxAttrs), e \in HostErrors \cup {Nil}}

\* AttributesRequest, EvalExprRequest and EmitIssueRequest in one shape, with the service method
Request(method, resource, attributeName, expr, exprRange, ret, rule, message, location) ==
    [method |-> method, Resource |-> resource, AttributeName |-> attributeName,
     Expr |-> expr, ExprRange |-> exprRange, Ret |-> ret, Rule |-> rule,
     Message |-> message, Location |-> location]
NoRule == [Name |-> "", Enabled |-> FALSE, Severity |-> ""]

AttributesRequest(resource, attributeName) ==
    Request("Plugin.Attributes", resource, attributeName, << >>, NoRange, "", NoRule, "", NoRange)

---------------------------------------------------------------------------
(* State *)

Args(resource, attributeName, expr, ret, rule, message, location, err) ==
    [resource |-> resource, attributeName |-> attributeName, expr |-> expr, ret |-> ret,
     rule |-> rule, message |-> message, location |-> location, err |-> err]
NoArgs == Args("", "", NoRange, "", NoRule, "", NoRange, Nil)

Running == [state |-> "running", val |-> Nil]
Returned(e) == [state |-> "returned", val |-> e]
Panicked(v) == [state |-> "panicked", val |-> v]

NoSrc == [read |-> FALSE, bytes |-> << >>, err |-> Nil]
NoDest == [type |-> "", v |-> ""]

Init ==
    /\ pc = "idle"
    /\ op = ""
    /\ args = NoArgs
    /\ calls = << >>
    /\ callErr = Nil
    /\ response = ZeroResponse
    /\ src = NoSrc
    /\ idx = 0
    /\ parsed = << >>
    /\ visited = << >>
    /\ walkerRets = << >>
    /\ active = 0
    /\ procCalls = 0
    /\ procRets = << >>
    /\ dest = NoDest
    /\ prev = ""
    /\ result = Running

\* the operation ends: return e
Return(e) == pc' = "done" /\ result' = Returned(e)
\* the operation ends: panic(v)
Panic(v) == pc' = "done" /\ result' = Panicked(v)

---------------------------------------------------------------------------
(* WalkResourceAttributes *)

Resources == {"aws_instance"}
AttributeNames == {"instance_type"}
WalkerResults ==
    {Nil, Foreign("walker", "rule failed"),
     ErrorValue(HostCode, WarningLevel, Msg("skip", NoFile, 0), "")}

WalkStart ==
    /\ pc = "idle"
    /\ \E r \in Resources, a \in AttributeNames :
         args' = Args(r, a, NoRange, "", NoRule, "", NoRange, Nil)
    /\ op' = "WalkResourceAttributes"
    /\ pc' = "walk_call"
    /\ UNCHANGED <<calls, callErr, response, src, idx, parsed, visited, walkerRets, active,
                   procCalls, procRets, dest, prev, result>>

\* WalkAfterCall without the check of the application error slot
WalkAfterCall_NoSlotCheck(err) ==
    IF err # Nil THEN Return(err) /\ idx' = idx
    ELSE pc' = "walk_loop" /\ idx' = 1 /\ result' = result

\* WalkAfterCall calling again when the call failed
WalkAfterCall_Retry(err) ==
    IF err # Nil THEN pc' = "walk_call" /\ idx' = idx /\ result' = result
    ELSE IF response'.Err # Nil THEN Return(response'.Err) /\ idx' = idx
    ELSE pc' = "walk_loop" /\ idx' = 1 /\ result' = result

\* what follows rpcClient.Call("Plugin.Attributes", ...) returning err with the reply decoded
WalkAfterCall(err) ==
    IF err # Nil THEN Return(err) /\ idx' = idx
    ELSE IF response'.Err # Nil THEN Return(response'.Err) /\ idx' = idx
    ELSE pc' = "walk_loop" /\ idx' = 1 /\ result' = result

WalkCall ==
    /\ pc = "walk_call"
    /\ calls' = Append(calls, AttributesRequest(args.resource, args.attributeName))
    /\ \E err \in RpcErrors \cup {Nil}, reply \in AttributesResponses :
         /\ callErr' = err
         /\ response' = reply
         /\ WalkAfterCall(err)
    /\ UNCHANGED <<op, args, src, parsed, visited, walkerRets, active,
                   procCalls, procRets, dest, prev>>

\* WalkNext going on to the next attribute when one does not decode
WalkNext_SkipBad ==
    /\ pc = "walk_loop"
    /\ IF idx > Len(response.Attributes)
       THEN /\ Return(Nil)
            /\ UNCHANGED <<parsed, visited, active, idx>>
       ELSE LET attribute == response.Attributes[idx]
                p == parseExpression(attribute.Expr, attribute.ExprRange.Filename,
                                     attribute.ExprRange.Start)
            IN /\ parsed' = Append(parsed, p)
               /\ IF p.panics
                  THEN /\ Panic(UnexpectedFile(attribute.ExprRange.Filename))
                       /\ UNCHANGED <<visited, active, idx>>
                  ELSE IF HasErrors(p.diags)
                  THEN /\ pc' = "walk_loop" /\ idx' = idx + 1 /\ result' = result
                       /\ UNCHANGED <<visited, active>>
                  ELSE /\ visited' = Append(visited,
                                            HclAttribute(attribute.Name, p.expr,
                                                         attribute.Range, attribute.NameRange))
                       /\ active' = active + 1
                       /\ pc' = "walk_visit"
                       /\ result' = result
                       /\ idx' = idx
    /\ UNCHANGED <<op, args, calls, callErr, response, src, walkerRets,
                   procCalls, procRets, dest, prev>>

\* one iteration of the range loop up to the call of the walker, or the loop's end
WalkNext ==
    /\ pc = "walk_loop"
    /\ IF idx > Len(response.Attributes)
       THEN /\ Return(Nil)
            /\ UNCHANGED <<parsed, visited, active>>
       ELSE LET attribute == response.Attributes[idx]
                p == parseExpression(attribute.Expr, attribute.ExprRange.Filename,
                                     attribute.ExprRange.Start)
            IN /\ parsed' = Append(parsed, p)
               /\ IF p.panics
                  THEN /\ Panic(UnexpectedFile(attribute.ExprRange.Filename))
                       /\ UNCHANGED <<visited, active>>
                  ELSE IF HasErrors(p.diags)
                  THEN /\ Return(p.diags)
                       /\ UNCHANGED <<visited, active>>
                  ELSE /\ visited' = Append(visited,
                                            HclAttribute(attribute.Name, p.expr,
                                                         attribute.Range, attribute.NameRange))
                       /\ active' = active + 1
                       /\ pc' = "walk_visit"
                       /\ result' = result
    /\ UNCHANGED <<op, args, calls, callErr, response, src, idx, walkerRets,
                   procCalls, procRets, dest, prev>>

\* WalkAfterWalker stepping over the attribute after the one visited
WalkAfterWalker_Skip(err) ==
    IF err # Nil THEN Return(err) /\ idx' = idx
    ELSE pc' = "walk_loop" /\ idx' = idx + 2 /\ result' = result

\* WalkAfterWalker going on with the loop whatever the walker returned
WalkAfterWalker_Continue(err) ==
    pc' = "walk_loop" /\ idx' = idx + 1 /\ result' = result

\* what follows the walker returning err
WalkAfterWalker(err) ==
    IF err # Nil THEN Return(err) /\ idx' = idx
    ELSE pc' = "walk_loop" /\ idx' = idx + 1 /\ result' = result

WalkerReturn ==
    /\ pc = "walk_visit"
    /\ \E err \in WalkerResults :
         /\ walkerRets' = Append(walkerRets, err)
         /\ WalkAfterWalker(err)
    /\ active' = active - 1
    /\ UNCHANGED <<op, args, calls, callErr, response, src, parsed, visited,
                   procCalls, procRets, dest, prev>>

---------------------------------------------------------------------------
(* EvaluateExpr *)

\* the ranges of the expressions a rule passes in: Range() of an hcl.Expression
ExprRanges ==
    {Rng(f, Pos(l, 1, b[1]), Pos(l, 1 + b[2] - b[1], b[2])) :
        f \in {MainTf, MainTfJson}, l \in {1, 2}, b \in {<<0, 1>>, <<1, 3>>, <<2, 6>>}}

\* what ioutil.ReadFile can find in a file
FileContents == {<<"a", "1", "1">>, <<"1", "a", "!", "1">>}

\* the shapes of the destinations a rule passes as ret, and what they hold before the call
Shapes == {"string", "number"}
Native(type, v) == [type |-> type, v |-> v]
DestBefore(shape) == {Native(shape, ""), Native(shape, "old")}

Conversion(err, value) == [err |-> err, value |-> value]

\* gocty.FromCtyValue into a destination of the given shape: err is "" on success
FromCtyValue(val, shape) ==
    IF ~val.known THEN Conversion("value must be known", Native(shape, ""))
    ELSE IF val.type # shape THEN Conversion(shape \o " required", Native(shape, ""))
    ELSE Conversion("", Native(shape, val.v))

EvalExprResponses ==
    {Response(<< >>, v, e) : v \in CtyVals, e \in HostErrors \cup {Nil}}

EvalExprRequest(expr, exprRange, ret) ==
    Request("Plugin.EvalExpr", "", "", expr, exprRange, ret, NoRule, "", NoRange)

\* ioutil.ReadFile(filename): the bytes of the file, or an error
ReadFile(filename) ==
    {[read |-> TRUE, bytes |-> c, err |-> Nil] : c \in FileContents}
      \cup {[read |-> TRUE, bytes |-> << >>, err |-> e] : e \in IOErrors}

EvalStart ==
    /\ pc = "idle"
    /\ \E e \in ExprRanges, shape \in Shapes :
         /\ args' = Args("", "", e, shape, NoRule, "", NoRange, Nil)
         /\ dest' \in DestBefore(shape)
    /\ op' = "EvaluateExpr"
    /\ pc' = "eval_read"
    /\ UNCHANGED <<calls, callErr, response, src, idx, parsed, visited, walkerRets, active,
                   procCalls, procRets, prev, result>>

\* AfterRead going on whether or not the file was read
AfterRead_IgnoreError(next) ==
    pc' = next /\ result' = result

\* what follows ioutil.ReadFile returning: the operation goes on to `next` or returns
AfterRead(next) ==
    IF src'.err # Nil THEN Return(src'.err)
    ELSE pc' = next /\ result' = result

EvalRead ==
    /\ pc = "eval_read"
    /\ src' \in ReadFile(args.expr.Filename)
    /\ AfterRead("eval_call")
    /\ UNCHANGED <<op, args, calls, callErr, response, idx, parsed, visited, walkerRets, active,
                   procCalls, procRets, dest, prev>>

\* the Error EvaluateExpr builds when the conversion fails with `cause`
TypeMismatch(exprRange, cause) ==
    ErrorRef(TypeMismatchError, ErrorLevel,
             Msg("Invalid type expression in %s:%d", exprRange.Filename, exprRange.Start.Line),
             cause)

\* EvalAfterCall without the check of the conversion's error
EvalAfterCall_NoMismatch(err) ==
    IF err # Nil THEN Return(err) /\ dest' = dest
    ELSE IF response'.Err # Nil THEN Return(response'.Err) /\ dest' = dest
    ELSE Return(Nil) /\ dest' = FromCtyValue(response'.Val, args.ret).value

\* EvalAfterCall looking at the application error slot before the call's error
EvalAfterCall_SlotFirst(err) ==
    IF response'.Err # Nil THEN Return(response'.Err) /\ dest' = dest
    ELSE IF err # Nil THEN Return(err) /\ dest' = dest
    ELSE LET c == FromCtyValue(response'.Val, args.ret)
         IN IF c.err # ""
            THEN Return(TypeMismatch(args.expr, c.err)) /\ dest' = dest
            ELSE Return(Nil) /\ dest' = c.value

\* EvalAfterCall passing over an application error of Warning level
EvalAfterCall_SwallowWarning(err) ==
    IF err # Nil THEN Return(err) /\ dest' = dest
    ELSE IF response'.Err # Nil /\ response'.Err.level # WarningLevel
    THEN Return(response'.Err) /\ dest' = dest
    ELSE LET c == FromCtyValue(response'.Val, args.ret)
         IN IF c.err # ""
            THEN Return(TypeMismatch(args.expr, c.err)) /\ dest' = dest
            ELSE Return(Nil) /\ dest' = c.value

\* EvalAfterCall converting the value into the destination before it looks at the error slot
EvalAfterCall_ConvertFirst(err) ==
    IF err # Nil THEN Return(err) /\ dest' = dest
    ELSE LET c == FromCtyValue(response'.Val, args.ret)
         IN IF c.err # ""
            THEN Return(TypeMismatch(args.expr, c.err)) /\ dest' = dest
            ELSE /\ dest' = c.value
                 /\ IF response'.Err # Nil THEN Return(response'.Err) ELSE Return(Nil)

\* what follows rpcClient.Call("Plugin.EvalExpr", ...) returning err with the reply decoded
EvalAfterCall(err) ==
    IF err # Nil THEN Return(err) /\ dest' = dest
    ELSE IF response'.Err # Nil THEN Return(response'.Err) /\ dest' = dest
    ELSE LET c == FromCtyValue(response'.Val, args.ret)
         IN IF c.err # ""
            THEN Return(TypeMismatch(args.expr, c.err)) /\ dest' = dest
            ELSE Return(Nil) /\ dest' = c.value

EvalCall ==
    /\ pc = "eval_call"
    /\ calls' = Append(calls, EvalExprRequest(SliceBytes(args.expr, src.bytes), args.expr, args.ret))
    /\ \E err \in RpcErrors \cup {Nil}, reply \in EvalExprResponses :
         /\ callErr' = err
         /\ response' = reply
         /\ EvalAfterCall(err)
    /\ UNCHANGED <<op, args, src, idx, parsed, visited, walkerRets, active,
                   procCalls, procRets, prev>>

---------------------------------------------------------------------------
(* EmitIssue *)

\* a plugin's rule: its own state does not cross the wire
Rules == {[Name |-> "aws_instance_invalid_type", Enabled |-> TRUE, Severity |-> "ERROR",
           state |-> "plugin"]}
Messages == {"instance type is invalid"}
Locations == {Rng(MainTf, Pos(1, 1, 0), Pos(1, 4, 3))}

\* newObjectFromRule: the RuleObject sent in place of the rule
newObjectFromRule(rule) ==
    [Name |-> rule.Name, Enabled |-> rule.Enabled, Severity |-> rule.Severity]

\* EmitIssueRequest with the issue's location sent as the expression's range
EmitIssueRequest_LocationAsRange(rule, message, location, expr, exprRange) ==
    Request("Plugin.EmitIssue", "", "", expr, location, "", rule, message, location)

EmitIssueRequest(rule, message, location, expr, exprRange) ==
    Request("Plugin.EmitIssue", "", "", expr, exprRange, "", rule, message, location)

\* what the host can put in the reply, which the client decodes into new(interface{})
EmitIssueReplies == {Response(<< >>, ZeroVal, e) : e \in HostErrors \cup {Nil}}

EmitStart ==
    /\ pc = "idle"
    /\ \E rule \in Rules, message \in Messages, location \in Locations, e \in ExprRanges :
         args' = Args("", "", e, "", newObjectFromRule(rule), message, location, Nil)
    /\ op' = "EmitIssue"
    /\ pc' = "emit_read"
    /\ UNCHANGED <<calls, callErr, response, src, idx, parsed, visited, walkerRets, active,
                   procCalls, procRets, dest, prev, result>>

EmitRead ==
    /\ pc = "emit_read"
    /\ src' \in ReadFile(args.expr.Filename)
    /\ AfterRead("emit_call")
    /\ UNCHANGED <<op, args, calls, callErr, response, idx, parsed, visited, walkerRets, active,
                   procCalls, procRets, dest, prev>>

\* what follows rpcClient.Call("Plugin.EmitIssue", ...) returning err: the reply is dropped
EmitAfterCall(err) ==
    IF err # Nil THEN Return(err) ELSE Return(Nil)

EmitCall ==
    /\ pc = "emit_call"
    /\ calls' = Append(calls, EmitIssueRequest(args.rule, args.message, args.location,
                                               SliceBytes(args.expr, src.bytes), args.expr))
    /\ \E err \in RpcErrors \cup {Nil}, reply \in EmitIssueReplies :
         /\ callErr' = err
         /\ response' = reply
         /\ EmitAfterCall(err)
    /\ UNCHANGED <<op, args, src, idx, parsed, visited, walkerRets, active,
                   procCalls, procRets, dest, prev>>

---------------------------------------------------------------------------
(* EnsureNoError *)

\* the errors a rule hands to EnsureNoError besides what an operation just returned
EnsureInputs ==
    {Nil} \cup HostErrors \cup RpcErrors \cup IOErrors \cup {Diags}
      \cup {MkErr(k, TypeMismatchError, l, Msg("Invalid type expression in %s:%d", MainTf, 1),
                  "number required") : k \in {"Error", "*Error"}, l \in Levels}

ProcResults == {Nil, Foreign("proc", "emit failed")} \cup RpcErrors

Outcome(step, val) == [step |-> step, val |-> val]

\* the type assertion err.(Error): it holds for an Error value, not for a *Error
AssertsError(err) == err.kind = "Error"

\* EnsureNoErrorOutcome returning nil at once when there is no error
EnsureNoErrorOutcome_SkipProc(err) ==
    IF err = Nil THEN Outcome("return", Nil)
    ELSE IF AssertsError(err)
    THEN LET appErr == ErrorValue(err.code, err.level, err.message, err.cause)
         IN CASE appErr.level = WarningLevel -> Outcome("return", Nil)
              [] appErr.level = ErrorLevel -> Outcome("return", appErr)
              [] OTHER -> Outcome("panic", appErr)
    ELSE Outcome("return", err)

\* EnsureNoErrorOutcome with the two levels' cases exchanged
EnsureNoErrorOutcome_SwapLevels(err) ==
    IF err = Nil THEN Outcome("proc", Nil)
    ELSE IF AssertsError(err)
    THEN LET appErr == ErrorValue(err.code, err.level, err.message, err.cause)
         IN CASE appErr.level = WarningLevel -> Outcome("return", appErr)
              [] appErr.level = ErrorLevel -> Outcome("return", Nil)
              [] OTHER -> Outcome("panic", appErr)
    ELSE Outcome("return", err)

\* EnsureNoErrorOutcome running proc when the error is not an Error
EnsureNoErrorOutcome_ForeignProc(err) ==
    IF err = Nil THEN Outcome("proc", Nil)
    ELSE IF AssertsError(err)
    THEN LET appErr == ErrorValue(err.code, err.level, err.message, err.cause)
         IN CASE appErr.level = WarningLevel -> Outcome("return", Nil)
              [] appErr.level = ErrorLevel -> Outcome("return", appErr)
              [] OTHER -> Outcome("panic", appErr)
    ELSE Outcome("proc", Nil)

\* EnsureNoError up to its return, its panic or its call of proc
EnsureNoErrorOutcome(err) ==
    IF err = Nil THEN Outcome("proc", Nil)
    ELSE IF AssertsError(err)
    THEN LET appErr == ErrorValue(err.code, err.level, err.message, err.cause)
         IN CASE appErr.level = WarningLevel -> Outcome("return", Nil)
              [] appErr.level = ErrorLevel -> Outcome("return", appErr)
              [] OTHER -> Outcome("panic", appErr)
    ELSE Outcome("return", err)

\* a rule calls EnsureNoError with an error of its own, or with what the operation
\* that just ended returned
EnsureStart ==
    /\ \/ /\ pc = "idle"
          /\ \E err \in EnsureInputs :
               args' = Args("", "", NoRange, "", NoRule, "", NoRange, err)
          /\ prev' = prev
       \/ /\ pc = "done"
          /\ op \in {"WalkResourceAttributes", "EvaluateExpr", "EmitIssue"}
          /\ result.state = "returned"
          /\ args' = Args("", "", NoRange, "", NoRule, "", NoRange, result.val)
          /\ prev' = op
    /\ op' = "EnsureNoError"
    /\ pc' = "ensure"
    /\ result' = Running
    /\ UNCHANGED <<calls, callErr, response, src, idx, parsed, visited, walkerRets, active,
                   procCalls, procRets, dest>>

EnsureNoError ==
    /\ pc = "ensure"
    /\ LET o == EnsureNoErrorOutcome(args.err)
       IN CASE o.step = "proc" ->
                 /\ procCalls' = procCalls + 1
                 /\ pc' = "ensure_proc"
                 /\ result' = result
            [] o.step = "return" -> Return(o.val) /\ procCalls' = procCalls
            [] OTHER -> Panic(o.val) /\ procCalls' = procCalls
    /\ UNCHANGED <<op, args, calls, callErr, response, src, idx, parsed, visited, walkerRets, active,
                   procRets, dest, prev>>

\* proc returns, and EnsureNoError returns what it returned
ProcReturn ==
    /\ pc = "ensure_proc"
    /\ \E err \in ProcResults :
         /\ procRets' = Append(procRets, err)
         /\ Return(err)
    /\ UNCHANGED <<op, args, calls, callErr, response, src, idx, parsed, visited, walkerRets, active,
                   procCalls, dest, prev>>

---------------------------------------------------------------------------

Next ==
    \/ WalkStart
    \/ WalkCall
    \/ WalkNext
    \/ WalkerReturn
    \/ EvalStart
    \/ EvalRead
    \/ EvalCall
    \/ EmitStart
    \/ EmitRead
    \/ EmitCall
    \/ EnsureStart
    \/ EnsureNoError
    \/ ProcReturn

Spec == Init /\ [][Next]_vars

---------------------------------------------------------------------------
(* Properties *)

InWalk == op = "WalkResourceAttributes"
InEval == op = "EvaluateExpr"
InEmit == op = "EmitIssue"
InEnsure == op = "EnsureNoError"
\* the walk's history is that of the running walk or of the walk whose result
\* EnsureNoError was given
OfWalk == InWalk \/ (InEnsure /\ prev = "WalkResourceAttributes")

\* the expression of the attribute decodes: no panic, no diagnostics
Decodes(attribute) ==
    LET p == parseExpression(attribute.Expr, attribute.ExprRange.Filename, attribute.ExprRange.Start)
    IN ~p.panics /\ ~HasErrors(p.diags)

\* the walker was handed the attribute: same name, range, name range and expression text
Delivered(attr, attribute) ==
    /\ attr.Name = attribute.Name
    /\ attr.Range = attribute.Range
    /\ attr.NameRange = attribute.NameRange
    /\ attr.Expr.source = attribute.Expr
    /\ attr.Expr.start = attribute.ExprRange.Start

\* C1: in a walk the i-th invocation of the walker receives the i-th attribute
\* of the response, at most one invocation runs at a time, and when the call
\* succeeded with an empty error slot, every attribute decodes and the walker
\* never returned an error, the finished walk has invoked the walker once per
\* attribute and returned nil.
C1_WalkVisitsAllInOrder ==
    InWalk =>
      /\ active \in {0, 1}
      /\ active = 1 <=> pc = "walk_visit"
      /\ Len(walkerRets) = Len(visited) - active
      /\ Len(visited) <= Len(response.Attributes)
      /\ \A i \in 1..Len(visited) : Delivered(visited[i], response.Attributes[i])
      /\ ( /\ pc = "done"
           /\ Len(calls) = 1 /\ callErr = Nil /\ response.Err = Nil
           /\ \A i \in 1..Len(response.Attributes) : Decodes(response.Attributes[i])
           /\ \A i \in 1..Len(walkerRets) : walkerRets[i] = Nil )
         => /\ result = Returned(Nil)
            /\ Len(visited) = Len(response.Attributes)
            /\ Len(walkerRets) = Len(response.Attributes)

\* a walk over three attributes, not all the same, ended with all of them visited
C1_Witness ==
    /\ InWalk /\ pc = "done" /\ result = Returned(Nil)
    /\ Len(response.Attributes) = 3 /\ Len(visited) = 3
    /\ visited[1].Name # visited[2].Name
    /\ visited[2].Name = visited[3].Name

\* C2: once the walker has returned an error on its k-th invocation, it has
\* been invoked k times and is not invoked again, no further attribute is
\* decoded, and the walk has returned that very error.
C2_WalkerErrorAborts ==
    \A k \in 1..Len(walkerRets) :
      walkerRets[k] # Nil =>
        /\ Len(visited) = k /\ Len(walkerRets) = k /\ Len(parsed) = k
        /\ active = 0
        /\ pc \notin {"walk_loop", "walk_visit"}
        /\ InWalk => pc = "done" /\ result = Returned(walkerRets[k])

\* the walker failed on the second of three attributes, the third would have decoded
C2_Witness ==
    /\ InWalk /\ pc = "done"
    /\ Len(walkerRets) = 2 /\ walkerRets[1] = Nil /\ IsLeveled(walkerRets[2])
    /\ Len(response.Attributes) = 3 /\ Decodes(response.Attributes[3])

\* C3: when the reply of a successful call carries an application error, no
\* attribute is decoded, the walker is never invoked, and the walk has
\* returned that application error.
C3_AppErrorNoVisit ==
    (OfWalk /\ Len(calls) = 1 /\ callErr = Nil /\ response.Err # Nil) =>
      /\ visited = << >> /\ walkerRets = << >> /\ parsed = << >> /\ active = 0
      /\ InWalk => pc = "done" /\ result = Returned(response.Err)

\* a reply with a Warning-level error and two attributes that would decode
C3_Witness ==
    /\ InWalk /\ pc = "done" /\ callErr = Nil
    /\ IsLeveled(response.Err) /\ response.Err.level = WarningLevel
    /\ Len(response.Attributes) = 2
    /\ \A i \in 1..2 : Decodes(response.Attributes[i])

\* C4: EnsureNoError(nil, proc) invokes proc once and returns what proc returned.
C4_EnsureNilRunsProc ==
    (InEnsure /\ args.err = Nil) =>
      /\ procCalls <= 1
      /\ Len(procRets) <= procCalls
      /\ pc = "ensure_proc" => procCalls = 1 /\ procRets = << >>
      /\ pc = "done" =>
           /\ procCalls = 1 /\ Len(procRets) = 1
           /\ result = Returned(procRets[1])

\* proc failed and EnsureNoError(nil, proc) returned its error
C4_Witness ==
    /\ InEnsure /\ args.err = Nil /\ pc = "done"
    /\ procCalls = 1 /\ procRets[1] # Nil /\ result = Returned(procRets[1])

\* C5: EnsureNoError(err, proc) with a Warning-level Error, held by value or
\* by reference, does not invoke proc and returns nil.
C5_WarningSwallowed ==
    (InEnsure /\ IsLeveled(args.err) /\ args.err.level = WarningLevel /\ pc # "ensure") =>
      /\ procCalls = 0
      /\ pc = "done" /\ result = Returned(Nil)

\* C6: EnsureNoError(err, proc) with an Error-level (Blocking) Error, held by
\* value or by reference, does not invoke proc and returns err as it was.
C6_BlockingReturned ==
    (InEnsure /\ IsLeveled(args.err) /\ args.err.level = ErrorLevel /\ pc # "ensure") =>
      /\ procCalls = 0 /\ procRets = << >>
      /\ pc = "done" /\ result = Returned(args.err)

\* the TypeMismatchError EvaluateExpr returned went through EnsureNoError
C6_Witness ==
    /\ InEnsure /\ prev = "EvaluateExpr" /\ pc = "done"
    /\ args.err.code = TypeMismatchError /\ args.err.level = ErrorLevel
    /\ Len(calls) = 1 /\ callErr = Nil /\ response.Err = Nil
    /\ result = Returned(args.err)

\* C7: EnsureNoError(err, proc) with an Error whose level is neither Warning
\* nor Error level, held by value or by reference, panics: it returns nothing
\* and does not invoke proc.
C7_OtherLevelPanics ==
    (InEnsure /\ IsLeveled(args.err) /\ args.err.level \notin {WarningLevel, ErrorLevel}
       /\ pc # "ensure") =>
      /\ procCalls = 0
      /\ pc = "done" /\ result.state = "panicked"

\* C8: EnsureNoError(err, proc) with a non-nil err that is no Error does not
\* invoke proc, does not panic, and returns err as it was.
C8_ForeignReturned ==
    (InEnsure /\ args.err # Nil /\ ~IsLeveled(args.err) /\ pc # "ensure") =>
      /\ procCalls = 0 /\ procRets = << >>
      /\ pc = "done" /\ result = Returned(args.err)

\* the parse diagnostics a walk returned went through EnsureNoError
C8_Witness ==
    /\ InEnsure /\ prev = "WalkResourceAttributes" /\ pc = "done"
    /\ args.err = Diags /\ result = Returned(Diags) /\ procCalls = 0

\* C9: when the call succeeded with an empty error slot and the value does not
\* convert into the destination's shape, EvaluateExpr has returned a reference
\* to an Error with code TypeMismatchError and level ErrorLevel (Blocking),
\* whose cause is the conversion's error and whose message is formatted from
\* the expression's filename and start line.
C9_TypeMismatch ==
    ( /\ InEval /\ pc = "done"
      /\ Len(calls) = 1 /\ callErr = Nil /\ response.Err = Nil
      /\ FromCtyValue(response.Val, args.ret).err # "" )
    => /\ result.state = "returned"
       /\ result.val # Nil
       /\ IsLeveled(result.val)
       /\ result.val.code = TypeMismatchError
       /\ result.val.level = ErrorLevel
       /\ result.val.cause = FromCtyValue(response.Val, args.ret).err
       /\ result.val.message =
            Msg("Invalid type expression in %s:%d", args.expr.Filename, args.expr.Start.Line)

\* a string came back for a number destination, for an expression on line 2
C9_Witness ==
    /\ InEval /\ pc = "done" /\ callErr = Nil /\ response.Err = Nil
    /\ response.Val.type = "string" /\ response.Val.known /\ args.ret = "number"
    /\ args.expr.Start.Line = 2 /\ args.expr.Filename = MainTfJson
    /\ result.val.code = TypeMismatchError /\ result.val.cause = "number required"

\* C10: EmitIssue returns a non-nil error whenever the call fails or the host
\* reports an application error in its reply, and nil only when neither happened.
C10_EmitPropagates ==
    (InEmit /\ pc = "done" /\ Len(calls) = 1) =>
      /\ (callErr # Nil \/ response.Err # Nil) => (result.state = "returned" /\ result.val # Nil)
      /\ result = Returned(Nil) => (callErr = Nil /\ response.Err = Nil)

\* the step is rpcClient.Call returning
CallReturns == Len(calls') = Len(calls) + 1

\* C11: when rpcClient.Call returns an error, the operation (any of the three)
\* returns that error value in the same step, whatever the reply holds, and
\* from then on no attribute is decoded or visited, the destination keeps
\* its value and no further request is sent.
C11_TransportErrorReturned ==
    [][ /\ (CallReturns /\ callErr' # Nil) =>
             /\ pc' = "done" /\ result' = Returned(callErr')
             /\ parsed' = parsed /\ visited' = visited /\ walkerRets' = walkerRets
             /\ dest' = dest
        /\ (Len(calls) = 1 /\ callErr # Nil) =>
             /\ calls' = calls /\ parsed' = parsed /\ visited' = visited
             /\ walkerRets' = walkerRets /\ dest' = dest
      ]_vars

\* EvaluateExpr returned the call's error although the reply held an
\* application error and a value that fits the destination, which kept its value
C11_Witness ==
    /\ InEval /\ pc = "done" /\ Len(calls) = 1
    /\ callErr.kind = "rpc" /\ result = Returned(callErr)
    /\ response.Err # Nil
    /\ FromCtyValue(response.Val, args.ret).err = ""
    /\ dest = Native(args.ret, "old")

\* C12: when the reply of a successful call of WalkResourceAttributes or
\* EvaluateExpr carries an application error, of Warning level or any other,
\* the operation has returned that error as it came, never nil.
C12_AppErrorNeverSwallowed ==
    ((InWalk \/ InEval) /\ Len(calls) = 1 /\ callErr = Nil /\ response.Err # Nil) =>
      /\ pc = "done"
      /\ result.state = "returned"
      /\ result.val # Nil
      /\ result.val = response.Err

\* EvaluateExpr returned a Warning-level Error of the host although the value fitted
C12_Witness ==
    /\ InEval /\ pc = "done" /\ Len(calls) = 1 /\ callErr = Nil
    /\ response.Err.kind = "Error" /\ response.Err.level = WarningLevel
    /\ FromCtyValue(response.Val, args.ret).err = ""
    /\ result = Returned(response.Err)

\* the operation that sent the requests in calls
Caller == IF InEnsure THEN prev ELSE op

\* the kind of call each operation is to make
CallKind(operation) ==
    CASE operation = "WalkResourceAttributes" -> "Plugin.Attributes"
      [] operation = "EvaluateExpr" -> "Plugin.EvalExpr"
      [] operation = "EmitIssue" -> "Plugin.EmitIssue"
      [] OTHER -> "none"

\* C13: an invocation sends at most one request, of the kind of its operation
\* (EnsureNoError sends none), and when that call failed the operation has
\* ended returning the failure: there is no second call.
C13_NoRetry ==
    /\ Len(calls) <= 1
    /\ \A i \in 1..Len(calls) : calls[i].method = CallKind(Caller)
    /\ pc \in {"walk_call", "eval_read", "eval_call", "emit_read", "emit_call"} => calls = << >>
    /\ (Len(calls) = 1 /\ callErr # Nil /\ ~InEnsure) =>
         pc = "done" /\ result = Returned(callErr)

\* a walk whose one call failed ended with that failure
C13_Witness ==
    /\ InWalk /\ pc = "done" /\ Len(calls) = 1
    /\ calls[1].method = "Plugin.Attributes"
    /\ calls[1].Resource = "aws_instance" /\ calls[1].AttributeName = "instance_type"
    /\ callErr.kind = "rpc" /\ result = Returned(callErr)

\* the filename is of neither kind parseExpression knows
UnknownKind(filename) == ~HasSuffix(filename, TfSuffix) /\ ~HasSuffix(filename, TfJsonSuffix)

\* every decode made so far went to the parser the suffix of the filename names:
\* ".tf" the native parser, ".tf.json" the JSON parser, whose verdict on the
\* source is the outcome; any other filename made the walk panic at that attribute
DispatchOnSuffix ==
    OfWalk =>
      \A i \in 1..Len(parsed) :
        LET attribute == response.Attributes[i]
            f == attribute.ExprRange.Filename
            p == parsed[i]
        IN /\ HasSuffix(f, TfSuffix) =>
                /\ p.parser = "hclsyntax" /\ ~p.panics
                /\ HasErrors(p.diags) <=> ~NativeOK(attribute.Expr)
                /\ ~HasErrors(p.diags) => p.expr.syntax = "hclsyntax"
           /\ (~HasSuffix(f, TfSuffix) /\ HasSuffix(f, TfJsonSuffix)) =>
                /\ p.parser = "json" /\ ~p.panics
                /\ HasErrors(p.diags) <=> ~JsonOK(attribute.Expr)
                /\ ~HasErrors(p.diags) => p.expr.syntax = "json"
           /\ UnknownKind(f) =>
                /\ p.parser = "none" /\ p.panics
                /\ i = Len(parsed) /\ Len(visited) = i - 1
                /\ pc \notin {"walk_loop", "walk_visit"}
                /\ InWalk => pc = "done" /\ result = Panicked(UnexpectedFile(f))

\* C14 (as stated): decode dispatches on the suffix alone, and a walk whose
\* response contains an attribute with a filename of another kind never
\* returns normally (stated here for replies of a successful call with an
\* empty error slot, the replies whose attributes are walked).
C14_OtherSuffixNeverReturns ==
    /\ DispatchOnSuffix
    /\ ( /\ InWalk /\ pc = "done" /\ Len(calls) = 1 /\ callErr = Nil /\ response.Err = Nil
         /\ \E j \in 1..Len(response.Attributes) :
              UnknownKind(response.Attributes[j].ExprRange.Filename) )
       => result.state = "panicked"

\* C14 (amended): decode dispatches on the suffix alone, and a walk that comes
\* to an attribute with a filename of another kind (the call succeeded, the
\* error slot is empty, every attribute before it decoded and the walker
\* returned no error) panics there, having visited the attributes before it.
C14_DispatchOnSuffix ==
    /\ DispatchOnSuffix
    /\ \A j \in 1..Len(response.Attributes) :
         ( /\ InWalk /\ pc = "done" /\ Len(calls) = 1 /\ callErr = Nil /\ response.Err = Nil
           /\ UnknownKind(response.Attributes[j].ExprRange.Filename)
           /\ \A i \in 1..(j - 1) : Decodes(response.Attributes[i])
           /\ \A i \in 1..Len(walkerRets) : walkerRets[i] = Nil )
         => /\ result = Panicked(UnexpectedFile(response.Attributes[j].ExprRange.Filename))
            /\ Len(visited) = j - 1 /\ Len(parsed) = j

\* a walk parsed m.json.tf natively and m.tf.json as JSON, then panicked at m.txt
C14_Witness ==
    /\ InWalk /\ pc = "done" /\ result.state = "panicked"
    /\ Len(parsed) = 3 /\ Len(visited) = 2
    /\ response.Attributes[1].ExprRange.Filename = JsonTf
    /\ visited[1].Expr.syntax = "hclsyntax"
    /\ response.Attributes[2].ExprRange.Filename = MainTfJson
    /\ visited[2].Expr.syntax = "json"
    /\ response.Attributes[3].ExprRange.Filename = MainTxt

\* the bytes of b at the offsets from `from` up to, not including, `to`
\* (offsets count from 0), in the order of the file
BytesBetween(b, from, to) ==
    LET at == {p \in 1..Len(b) : from <= p - 1 /\ p - 1 < to}
    IN [k \in 1..Cardinality(at) |-> b[from + k]]

\* C15: every EvalExpr and EmitIssue request sent carries as Expr the bytes
\* of the file read in this call that lie between the start and end byte
\* offsets of the expression's range, and as ExprRange that range itself.
C15_WireForm ==
    (InEval \/ InEmit) =>
      \A i \in 1..Len(calls) :
        /\ src.read /\ src.err = Nil
        /\ calls[i].method = CallKind(op)
        /\ calls[i].Expr = BytesBetween(src.bytes, args.expr.Start.Byte, args.expr.End.Byte)
        /\ calls[i].ExprRange = args.expr
        /\ calls[i].ExprRange.Filename = args.expr.Filename

\* EmitIssue sent bytes 1 and 2 of a four-byte file with the expression's
\* range, which is not the issue's location
C15_Witness ==
    /\ InEmit /\ Len(calls) = 1
    /\ src.bytes = <<"1", "a", "!", "1">>
    /\ args.expr.Start.Byte = 1 /\ args.expr.End.Byte = 3
    /\ calls[1].Expr = <<"a", "!">>
    /\ calls[1].ExprRange = args.expr
    /\ calls[1].Location # calls[1].ExprRange

\* C16: when the reply of EvaluateExpr's call carries an application error,
\* EvaluateExpr returns that error in the same step and the destination keeps
\* its value, whatever value the reply carries; the destination the caller
\* passed changes only in the step in which the call succeeded with an empty
\* error slot and the value converted, and then holds the converted value.
C16_SlotCheckedFirst ==
    [][ /\ (pc = "eval_call" /\ callErr' = Nil /\ response'.Err # Nil) =>
             /\ pc' = "done" /\ result' = Returned(response'.Err)
             /\ dest' = dest
        /\ (pc # "idle" /\ dest' # dest) =>
             /\ pc = "eval_call" /\ callErr' = Nil /\ response'.Err = Nil
             /\ FromCtyValue(response'.Val, args.ret).err = ""
             /\ dest' = Native(args.ret, response'.Val.v)
             /\ result' = Returned(Nil)
      ]_vars

\* the reply held an application error and a value that fits a string
\* destination; the error came back and the destination still holds "old"
C16_Witness ==
    /\ InEval /\ pc = "done" /\ Len(calls) = 1 /\ callErr = Nil
    /\ response.Err # Nil /\ result = Returned(response.Err)
    /\ args.ret = "string" /\ response.Val = Cty("string", "t2.micro", TRUE)
    /\ dest = Native("string", "old")

\* the parser rejects the expression of the attribute: decode returns diagnostics
Rejected(attribute) ==
    LET p == parseExpression(attribute.Expr, attribute.ExprRange.Filename, attribute.ExprRange.Start)
    IN ~p.panics /\ HasErrors(p.diags)

\* attribute j of the response is the first whose expression does not decode
FirstRejected(j) ==
    /\ j \in 1..Len(response.Attributes)
    /\ Rejected(response.Attributes[j])
    /\ \A i \in 1..(j - 1) : Decodes(response.Attributes[i])

\* C17 (as stated): if attribute j of the response is the first whose
\* expression fails to decode, the walk returns the parse diagnostics and the
\* walker was invoked j-1 times (stated here for replies of a successful call
\* with an empty error slot, the replies whose attributes are walked).
C17_FirstRejectedReturnsDiags ==
    \A j \in 1..Len(response.Attributes) :
      ( /\ InWalk /\ pc = "done" /\ Len(calls) = 1 /\ callErr = Nil /\ response.Err = Nil
        /\ FirstRejected(j) )
      => /\ result = Returned(Diags)
         /\ Len(visited) = j - 1

\* C17 (amended): an attribute is decoded right before it is visited, never
\* ahead; a decode that returns diagnostics ends the walk, which returns those
\* diagnostics with no further decode or visit; and when the call succeeded
\* with an empty error slot, attribute j is the first that does not decode and
\* the walker returned no error on attributes 1..j-1, the walk has returned
\* the diagnostics after invoking the walker j-1 times, on attributes 1..j-1
\* in order.
C17_DecodeBeforeVisit ==
    /\ OfWalk => Len(parsed) \in {Len(visited), Len(visited) + 1}
    /\ OfWalk =>
         \A j \in 1..Len(parsed) :
           HasErrors(parsed[j].diags) =>
             /\ j = Len(parsed) /\ Len(visited) = j - 1 /\ Len(walkerRets) = j - 1
             /\ active = 0 /\ pc \notin {"walk_loop", "walk_visit"}
             /\ InWalk => pc = "done" /\ result = Returned(parsed[j].diags)
    /\ \A j \in 1..Len(response.Attributes) :
         ( /\ InWalk /\ pc = "done" /\ Len(calls) = 1 /\ callErr = Nil /\ response.Err = Nil
           /\ FirstRejected(j)
           /\ \A i \in 1..Len(walkerRets) : walkerRets[i] = Nil )
         => /\ result = Returned(Diags)
            /\ Len(visited) = j - 1 /\ Len(walkerRets) = j - 1 /\ Len(parsed) = j
            /\ \A i \in 1..(j - 1) : Delivered(visited[i], response.Attributes[i])

\* the third attribute, a bare identifier in a JSON file, was rejected after
\* two attributes were visited
C17_Witness ==
    /\ InWalk /\ pc = "done" /\ result = Returned(Diags)
    /\ Len(response.Attributes) = 3 /\ FirstRejected(3)
    /\ response.Attributes[3].ExprRange.Filename = MainTfJson
    /\ Len(visited) = 2 /\ Len(parsed) = 3
    /\ visited[1].Name # visited[2].Name

\* C18: in EvaluateExpr and EmitIssue a request is sent only after the file
\* was read without error, and none is sent before or while it is read; when
\* the read fails the operation returns the I/O error in the same step, and
\* neither then nor later is a request sent or the destination changed.
C18_ReadBeforeCall ==
    [][ /\ (CallReturns /\ (InEval \/ InEmit)) => (src.read /\ src.err = Nil)
        /\ pc \in {"eval_read", "emit_read"} =>
             /\ ~src.read /\ src'.read
             /\ calls = << >> /\ calls' = << >>
             /\ src'.err # Nil =>
                  /\ pc' = "done" /\ result' = Returned(src'.err)
                  /\ dest' = dest
        /\ (src.read /\ src.err # Nil) => (calls' = calls /\ dest' = dest)
      ]_vars

\* EvaluateExpr could not read the file: the I/O error came back, nothing was
\* sent and the destination still holds "old"
C18_Witness ==
    /\ InEval /\ pc = "done"
    /\ src.read /\ src.err \in IOErrors
    /\ result = Returned(src.err)
    /\ calls = << >>
    /\ dest = Native(args.ret, "old")

====
